---- MODULE Spec2Model ----
(***************************************************************************)
(* macgas gas station (server/index.mjs, server/x402-middleware.mjs):      *)
(* the per-project prepaid ledger, the metering gateway POST               *)
(* /sign_and_send, the x402 payment credit paths, the admin operations and *)
(* the SOL deposit reconciler checkDeposits, as one state machine.  Every  *)
(* action is one synchronous run of a handler between two awaits: Node     *)
(* runs such a run to completion, so it is atomic.                         *)
(***************************************************************************)
EXTENDS Integers, Sequences, FiniteSets, TLC

(* ------------------------------ bounds --------------------------------- *)
MaxReq == 2
MaxFund == 1
MaxObj == 3
MaxSettle == 2
MaxChain == 2
MaxCyc == 2
MaxOps == 5
MaxHits == 102
MaxTxHits == 22
MaxIxs == 2
MaxInner == 1

(* ------------------------- program constants --------------------------- *)
CostLamports == 5000
CostUsdc == 500
X402TxCount == 100
MaxTxCount == 10000
DefaultTxCount == 100
SigLimit == 20
LimiterMax == 100
TxLimiterMax == 20
UsdcToLamportsRate == 10000000
UsdcUnit == 1000000
LamportsPerSol == 1000000000

MY_WALLET == "F6i99DWMEMZtLDKnWGx1FW6drkqvtDnXWLHxgrwzVdWD"
USDC_MINT == "EPjFWdd5AufqSSqeM2qN1xzybapC8G4wEGGkZwyTDt1v"

ProjectIds == {"proj_1", "payg_1"}
PaymentHeaders == {"pay_1"}
NoHeader == "none"

ReqIds == 1..MaxReq
FundIds == 1..MaxFund

Min(a, b) == IF a < b THEN a ELSE b

VARIABLES
    objs,          \* the project objects ever created (data.projects values and
                   \* the objects a handler still holds after a replacement)
    index,         \* data.projects: project id -> position in objs, 0 = absent
    req,           \* the POST /sign_and_send requests
    fund,          \* the POST /fund requests
    refCredits,    \* per settlement reference: how many credits were applied
    chain,         \* the sponsor wallet's transactions, oldest first; the
                   \* signature of a transaction is its position
    cyc,           \* the running cycles of checkDeposits
    lastSignature, \* the deposit cursor, 0 = null
    sigCredits,    \* per deposit signature: how many credits were applied
    ops,           \* requests, deposits and poll cycles started so far
    limiter,       \* the hit counters of limiter and txLimiter in their
                   \* current windows, and what became of the requests
    entry,         \* per reconciler: the transaction its loop body holds
                   \* (tx), and the locals usdcAmount and lamportsCredit
    admin,         \* the configured admin key, and the key, operation and
                   \* status of the last admin request answered
    saved          \* data.json: per project id what saveData last wrote

vars == <<objs, index, req, fund, refCredits, chain, cyc, lastSignature,
          sigCredits, ops, limiter, entry, admin, saved>>

ledgerVars == <<objs, index>>
gatewayVars == <<req, fund, refCredits>>
depositVars == <<chain, cyc, lastSignature, sigCredits>>

\* a request (one the throttle lets through: MaxOps is below both budgets),
\* a transfer or a poll cycle arrives
Arrive ==
    ops < MaxOps /\ ops' = ops + 1 /\ UNCHANGED <<limiter, entry, admin>>


(* ------------------------------ projects ------------------------------- *)
\* a project object: the fields of data.projects[id] that the handlers read
\* (payWith is _payWith, "none" when the field is absent), and for the
\* properties the number and the sum of the credits applied to it (credits,
\* credited) and the sums of its debits in each asset (debited, debitedUsdc)
NoDeposit == [lamports |-> 0, txSignature |-> 0]

NewProject(tier) ==
    [tier |-> tier, balanceLamports |-> 0, balanceUsdcLamports |-> 0,
     totalTxs |-> 0, active |-> TRUE, payWith |-> "none",
     lastDeposit |-> NoDeposit,
     credits |-> 0, credited |-> 0, debited |-> 0, debitedUsdc |-> 0]


(* ------------------------------ data.json ------------------------------ *)
\* what the file holds of a project: its balances and counter
Ledger(p) ==
    [balanceLamports |-> p.balanceLamports,
     balanceUsdcLamports |-> p.balanceUsdcLamports, totalTxs |-> p.totalTxs]

NoRecord == [balanceLamports |-> 0, balanceUsdcLamports |-> 0, totalTxs |-> -1]

\* mutant: the file is written from the projects as they were when the
\* handler started
StoredBefore(os, ix) ==
    [id \in ProjectIds |->
        IF ix[id] = 0 \/ ix[id] > Len(objs) THEN NoRecord
        ELSE Ledger(objs[ix[id]])]

\* JSON.stringify(data): the projects data.projects holds
Stored(os, ix) ==
    [id \in ProjectIds |-> IF ix[id] = 0 THEN NoRecord ELSE Ledger(os[ix[id]])]

\* saveData(data), called after the handler's changes
SaveData == saved' = Stored(objs', index')

(* ------------------------ x402 payment verifier ------------------------ *)
\* createPaymentRequirements: price = (txCount * 0.001).toFixed(4), kept here in
\* ten-thousandths of a dollar
PriceOf(txCount) == txCount * 10

\* createPaymentRequirements(txCount): the fields that depend on txCount and
\* the receiving address
Requirements(txCount) ==
    [price |-> PriceOf(txCount), payTo |-> MY_WALLET, txCount |-> txCount]

\* no X-Payment-Required header
NoRequirements == [price |-> 0, payTo |-> "none", txCount |-> 0]

\* the n in 1..200 for which Math.floor(parseFloat(price) / 0.001) is n - 1 in
\* IEEE-754 double arithmetic
FloatShort == {43, 51, 59, 71, 86, 87, 102, 103, 118, 119, 141, 142, 143,
               172, 173, 174, 175}

\* verifyPayment: txCount = Math.floor(parseFloat(price) / COST_PER_TX_USD)
TxCountOf(price) ==
    LET n == price \div 10
    IN  IF n \in FloatShort THEN n - 1 ELSE n

\* app.post('/fund'): parseInt(req.body.transactions) || 100, capped
FundTxCount(t) == Min(IF t = 0 THEN DefaultTxCount ELSE t, MaxTxCount)

\* mutant: the unit count is credited as if it were lamports
CreditUnits(txCount) == txCount

\* creditLamports = result.txCount * COST_PER_TX * 1e9
CreditLamports(txCount) == txCount * CostLamports

\* mutant: the credit is written over a balance read before an await (here
\* the balance at creation), so what was applied in between is lost
CreditStale(p, lamports) ==
    [p EXCEPT !.balanceLamports = lamports,
              !.credits = @ + 1, !.credited = @ + lamports]

\* mutant: the credit is booked on the USDC balance
CreditUsdc(p, lamports) ==
    [p EXCEPT !.balanceUsdcLamports = @ + lamports,
              !.credits = @ + 1, !.credited = @ + lamports]

\* project.balanceLamports += lamports
Credit(p, lamports) ==
    [p EXCEPT !.balanceLamports = @ + lamports,
              !.credits = @ + 1, !.credited = @ + lamports]

\* the credit of a deposit: the balance, and lastDeposit
CreditDeposit(p, lamports, sig) ==
    [Credit(p, lamports) EXCEPT
        !.lastDeposit = [lamports |-> lamports, txSignature |-> sig]]

(* --------------------------- metering gateway -------------------------- *)
IdleReq ==
    [pc |-> "idle", id |-> "none", obj |-> 0, hdr |-> NoHeader,
     status |-> 0, kind |-> "none", memo |-> "none", payTo |-> "none",
     required |-> 0, payReq |-> NoRequirements,
     paidWith |-> "none", sel |-> "none", balAtCheck |-> 0, inflight |-> {},
     verified |-> FALSE, settled |-> FALSE, forwarded |-> FALSE,
     dLamports |-> 0, dUsdc |-> 0, dTxs |-> 0]

\* mutant: USDC is tried before SOL
SelectUsdcFirst(tier, sol, usdc) ==
    IF tier \in {"payg", "free"}
    THEN IF usdc >= CostUsdc THEN "USDC"
         ELSE IF sol >= CostLamports THEN "SOL" ELSE "none"
    ELSE IF sol < CostLamports THEN "none" ELSE "SOL"

\* the tier check of POST /sign_and_send: the funding source, "none" = shortfall
SelectSource(tier, sol, usdc) ==
    IF tier \in {"payg", "free"}
    THEN IF sol >= CostLamports THEN "SOL"
         ELSE IF usdc >= CostUsdc THEN "USDC" ELSE "none"
    ELSE IF sol < CostLamports THEN "none" ELSE "SOL"

Respond(rq, status, kind) ==
    [rq EXCEPT !.pc = "done", !.status = status, !.kind = kind]

\* requests of the same project object that are awaiting Kora or the broadcast
InFlight(o, self) ==
    {r \in ReqIds : r # self /\ req[r].obj = o /\ req[r].pc \in {"kora", "send"}}

\* POST /sign_and_send from the project checks up to the fetch of Kora:
\* the request rq (numbered self) and the objects os as the x402 block left them
Gate(self, rq, os) ==
    IF rq.obj = 0
    THEN [req |-> Respond(rq, 404, "NotFound"), objs |-> os]
    ELSE LET p == os[rq.obj]
             s == SelectSource(p.tier, p.balanceLamports, p.balanceUsdcLamports)
         IN  IF ~p.active
             THEN [req |-> Respond(rq, 403, "ProjectInactive"), objs |-> os]
             ELSE IF s = "none"
             THEN [req |-> [Respond(rq, 402, "InsufficientBalance")
                               EXCEPT !.memo = rq.id, !.payTo = MY_WALLET,
                                      !.required = CostLamports,
                                      !.payReq =
                                          IF p.tier \in {"payg", "free"}
                                          THEN Requirements(X402TxCount)
                                          ELSE NoRequirements,
                                      !.balAtCheck = p.balanceLamports],
                   objs |-> os]
             ELSE [req |-> [rq EXCEPT !.pc = "kora", !.sel = s,
                                      !.forwarded = TRUE,
                                      !.balAtCheck = p.balanceLamports,
                                      !.inflight = InFlight(rq.obj, self)],
                   objs |-> IF p.tier \in {"payg", "free"}
                            THEN [os EXCEPT ![rq.obj].payWith = s]
                            ELSE os]

\* mutant: a pay-as-you-go project is debited in both assets
DebitBoth(p) ==
    IF p.tier \in {"payg", "free"}
    THEN [p EXCEPT !.totalTxs = @ + 1, !.payWith = "none",
                   !.balanceUsdcLamports = @ - CostUsdc,
                   !.balanceLamports = @ - CostLamports,
                   !.debited = @ + CostLamports,
                   !.debitedUsdc = @ + CostUsdc]
    ELSE [p EXCEPT !.totalTxs = @ + 1,
                   !.balanceLamports = @ - CostLamports,
                   !.debited = @ + CostLamports]

\* the debit block: project.totalTxs += 1, then the debit by tier and _payWith
Debit(p) ==
    IF p.tier \in {"payg", "free"}
    THEN IF p.payWith = "USDC"
         THEN [p EXCEPT !.totalTxs = @ + 1, !.payWith = "none",
                        !.balanceUsdcLamports = @ - CostUsdc,
                        !.debitedUsdc = @ + CostUsdc]
         ELSE [p EXCEPT !.totalTxs = @ + 1, !.payWith = "none",
                        !.balanceLamports = @ - CostLamports,
                        !.debited = @ + CostLamports]
    ELSE [p EXCEPT !.totalTxs = @ + 1,
                   !.balanceLamports = @ - CostLamports,
                   !.debited = @ + CostLamports]

\* result.paidWith of the success response, "none" = not set (gasless tier)
PaidWith(p) ==
    IF p.tier \in {"payg", "free"}
    THEN IF p.payWith = "USDC" THEN "USDC" ELSE "SOL"
    ELSE "none"


\* the request enters the handler: the project lookup, then either the await of
\* verifyPayment (payment header and known project) or the project checks
SignAndSend(r, id, hdr) ==
    /\ Arrive
    /\ req[r].pc = "idle"
    /\ \A q \in 1..(r - 1) : req[q].pc # "idle"
    /\ LET rq == [IdleReq EXCEPT !.id = id, !.obj = index[id], !.hdr = hdr]
       IN  IF hdr # NoHeader /\ rq.obj # 0
           THEN /\ req' = [req EXCEPT ![r] = [rq EXCEPT !.pc = "verify",
                                                        !.verified = TRUE]]
                /\ objs' = objs
           ELSE LET g == Gate(r, rq, objs)
                IN  /\ req' = [req EXCEPT ![r] = g.req]
                    /\ objs' = g.objs
    /\ UNCHANGED <<index, fund, refCredits, depositVars>>
    /\ UNCHANGED saved

\* mutant: whatever x402Server.settle returns counts as settled
SettledUnlessThrown(s) == s # "throw"

\* verifyPayment after settle: settlement.success, or the catch
Settled(s) == s = "success"

\* x402Server.verify answers: valid, invalid, or it throws (caught in
\* verifyPayment); when not valid the handler goes on to the project checks
VerifyReply(r, v) ==
    /\ UNCHANGED <<ops, limiter, entry, admin>>
    /\ req[r].pc = "verify"
    /\ IF v = "valid"
       THEN /\ req' = [req EXCEPT ![r].pc = "settle"]
            /\ objs' = objs
       ELSE LET g == Gate(r, req[r], objs)
            IN  /\ req' = [req EXCEPT ![r] = g.req]
                /\ objs' = g.objs
    /\ UNCHANGED <<index, fund, refCredits, depositVars>>
    /\ UNCHANGED saved

\* x402Server.settle answers; on success the batch is credited, then the
\* project checks run in the same synchronous stretch
SettleReply(r, s) ==
    /\ UNCHANGED <<ops, limiter, entry, admin>>
    /\ req[r].pc = "settle"
    /\ IF Settled(s)
       THEN /\ refCredits[req[r].hdr] < MaxSettle
            /\ LET c  == CreditLamports(TxCountOf(PriceOf(X402TxCount)))
                   os == [objs EXCEPT ![req[r].obj] = Credit(@, c)]
                   rq == [req[r] EXCEPT !.settled = TRUE, !.dLamports = @ + c]
                   g  == Gate(r, rq, os)
               IN  /\ req' = [req EXCEPT ![r] = g.req]
                   /\ objs' = g.objs
            /\ refCredits' = [refCredits EXCEPT ![req[r].hdr] = @ + 1]
       ELSE /\ LET g == Gate(r, req[r], objs)
               IN  /\ req' = [req EXCEPT ![r] = g.req]
                   /\ objs' = g.objs
            /\ UNCHANGED refCredits
    /\ UNCHANGED <<index, fund, depositVars>>
    /\ IF Settled(s) THEN SaveData ELSE UNCHANGED saved

\* the status of the response to each unusable answer of Kora: a thrown fetch,
\* an empty or unparsable body or a missing result (502), an RPC error (400),
\* no signed_transaction (500)
KoraFailures == {"unusable", "rpc_error", "no_signed_tx"}

KoraStatus(k) ==
    IF k = "rpc_error" THEN 400 ELSE IF k = "no_signed_tx" THEN 500 ELSE 502

KoraReply(r, k) ==
    /\ UNCHANGED <<ops, limiter, entry, admin>>
    /\ req[r].pc = "kora"
    /\ req' = [req EXCEPT ![r] =
                  IF k = "ok" THEN [@ EXCEPT !.pc = "send"]
                  ELSE Respond(@, KoraStatus(k), "UpstreamSigningError")]
    /\ UNCHANGED <<objs, index, fund, refCredits, depositVars>>
    /\ UNCHANGED saved

\* mutant: the debit block runs before sendResult.error is looked at
ChargeUnchecked(p, k) == IF k = "throw" THEN p ELSE Debit(p)

\* the project after sendTransaction answered k: the debit block runs only
\* when the answer carries a signature
Charge(p, k) == IF k = "signature" THEN Debit(p) ELSE p

SendStatus(k) == IF k = "error" THEN 400 ELSE IF k = "throw" THEN 502 ELSE 200

SendKind(k) ==
    IF k = "signature" THEN "Success"
    ELSE IF k = "no_signature" THEN "NoSignature" ELSE "UpstreamBroadcastError"

\* sendTransaction answers: a signature (the debit block runs), an error (400),
\* a thrown fetch (502), or neither an error nor a signature (no debit, and the
\* response still carries Kora's status)
SendReply(r, k) ==
    /\ UNCHANGED <<ops, limiter, entry, admin>>
    /\ req[r].pc = "send"
    /\ LET o  == req[r].obj
           p  == objs[o]
           p2 == Charge(p, k)
       IN  /\ objs' = [objs EXCEPT ![o] = p2]
           /\ req' = [req EXCEPT ![r] =
                 [Respond(@, SendStatus(k), SendKind(k)) EXCEPT
                     !.paidWith = IF k = "signature" THEN PaidWith(p) ELSE "none",
                     !.dTxs = @ + (p2.totalTxs - p.totalTxs),
                     !.dLamports = @ + (p2.balanceLamports - p.balanceLamports),
                     !.dUsdc = @ + (p2.balanceUsdcLamports
                                    - p.balanceUsdcLamports)]]
    /\ UNCHANGED <<index, fund, refCredits, depositVars>>
    /\ IF k = "signature" THEN SaveData ELSE UNCHANGED saved

(* ---------------------------- balance queries -------------------------- *)
\* estimatedTxsRemaining of GET /balance/:projectId, estimatedTxs of
\* GET /balance, estimatedTxsFromSol of GET /payg/balance/:projectId:
\* Math.floor(balanceLamports / (COST_PER_TX * 1e9))
EstimatedTxsFromSol(p) == p.balanceLamports \div CostLamports

\* estimatedTxsFromUsdc of GET /payg/balance/:projectId:
\* Math.floor(balanceUsdcLamports / (COST_PER_TX * 100)), the micro-unit
\* balance divided by the cost in whole USDC (costUsdc / 1e6)
EstimatedTxsFromUsdc(p) == (p.balanceUsdcLamports * UsdcUnit) \div CostUsdc

(* ------------------------------ POST /fund ----------------------------- *)
IdleFund ==
    [pc |-> "idle", id |-> "none", obj |-> 0, hdr |-> NoHeader, n |-> 0,
     status |-> 0, dLamports |-> 0, details |-> "none"]

\* the values of body.transactions tried: 0 stands for absent, zero or unparsable
FundTransactions == {0}

FundStart(f, id, hdr, t) ==
    /\ Arrive
    /\ fund[f].pc = "idle"
    /\ LET fq == [IdleFund EXCEPT !.id = id, !.obj = index[id], !.hdr = hdr,
                                  !.n = FundTxCount(t)]
       IN  fund' = [fund EXCEPT ![f] =
                IF fq.obj = 0 THEN [fq EXCEPT !.pc = "done", !.status = 404]
                ELSE IF hdr # NoHeader THEN [fq EXCEPT !.pc = "verify"]
                ELSE [fq EXCEPT !.pc = "done", !.status = 402]]
    /\ UNCHANGED <<objs, index, req, refCredits, depositVars>>
    /\ UNCHANGED saved

FundVerifyReply(f, v) ==
    /\ UNCHANGED <<ops, limiter, entry, admin>>
    /\ fund[f].pc = "verify"
    /\ fund' = [fund EXCEPT ![f] =
                  IF v = "valid" THEN [@ EXCEPT !.pc = "settle"]
                  ELSE [@ EXCEPT !.pc = "done", !.status = 402,
                                 !.details = "result.error"]]
    /\ UNCHANGED <<objs, index, req, refCredits, depositVars>>
    /\ UNCHANGED saved

FundSettleReply(f, s) ==
    /\ UNCHANGED <<ops, limiter, entry, admin>>
    /\ fund[f].pc = "settle"
    /\ IF Settled(s)
       THEN /\ refCredits[fund[f].hdr] < MaxSettle
            /\ LET c == CreditLamports(TxCountOf(PriceOf(fund[f].n)))
               IN  /\ objs' = [objs EXCEPT ![fund[f].obj] = Credit(@, c)]
                   /\ fund' = [fund EXCEPT ![f].pc = "done", ![f].status = 200,
                                           ![f].dLamports = c]
            /\ refCredits' = [refCredits EXCEPT ![fund[f].hdr] = @ + 1]
       ELSE /\ fund' = [fund EXCEPT ![f].pc = "done", ![f].status = 402,
                                           ![f].details = "result.error"]
            /\ UNCHANGED <<objs, refCredits>>
    /\ UNCHANGED <<index, req, depositVars>>
    /\ IF Settled(s) THEN SaveData ELSE UNCHANGED saved

(* ---------------------- registration and admin ------------------------- *)
\* data.projects[id] = { ... }: a new object takes the id, whatever held it
Create(id, tier) ==
    /\ Len(objs) < MaxObj
    /\ objs' = Append(objs, NewProject(tier))
    /\ index' = [index EXCEPT ![id] = Len(objs) + 1]

\* POST /register: the generated id ('proj_' + time + random) is a fresh one
Register ==
    /\ Arrive
    /\ index["proj_1"] = 0
    /\ Create("proj_1", "none")
    /\ UNCHANGED <<gatewayVars, depositVars>>
    /\ SaveData

\* POST /payg/register (and its alias /free/register)
PaygRegister ==
    /\ Arrive
    /\ index["payg_1"] = 0
    /\ Create("payg_1", "payg")
    /\ UNCHANGED <<gatewayVars, depositVars>>
    /\ SaveData

\* POST /admin/projects with the admin key: the caller chooses the id
AdminProjects(id) ==
    /\ Arrive
    /\ Create(id, "none")
    /\ UNCHANGED <<gatewayVars, depositVars>>
    /\ SaveData

\* the values of body.lamports tried: the handler takes any number
AdminLamports == {5000, -5000}

\* POST /admin/deposit with the admin key
AdminDeposit(id, lamports) ==
    /\ Arrive
    /\ index[id] # 0
    /\ objs' = [objs EXCEPT ![index[id]] = CreditDeposit(@, lamports, 0)]
    /\ UNCHANGED <<index, gatewayVars, depositVars>>
    /\ SaveData

NoKey == "none"

IdleAdmin ==
    [validKey |-> "key_1", adminKey |-> NoKey, op |-> "none", status |-> 0]

\* the values of getAdminKey(), and of body.adminKey
ConfiguredKeys == {"key_1", NoKey}
AdminKeys == {"key_1", "key_2", NoKey}

\* mutant: only a key that is present is compared
AdminGuardLoose(validKey, adminKey) ==
    IF validKey = NoKey THEN 500
    ELSE IF adminKey # NoKey /\ adminKey # validKey THEN 401 ELSE 0

\* the key checks both admin handlers start with: the status they answer,
\* 0 = the request goes on
AdminGuard(validKey, adminKey) ==
    IF validKey = NoKey THEN 500
    ELSE IF adminKey = NoKey \/ adminKey # validKey THEN 401 ELSE 0

\* POST /admin/projects with any key; named = projectId and name are given
AdminProjectsCall(id, named, key) ==
    /\ ops < MaxOps
    /\ ops' = ops + 1
    /\ LET g == AdminGuard(admin.validKey, key)
           status == IF g # 0 THEN g ELSE IF ~named THEN 400 ELSE 200
       IN  /\ admin' = [admin EXCEPT !.adminKey = key, !.op = "projects",
                                     !.status = status]
           /\ IF status = 200
              THEN Create(id, "none") /\ SaveData
              ELSE UNCHANGED <<ledgerVars, saved>>
    /\ UNCHANGED <<gatewayVars, depositVars, limiter, entry>>

\* POST /admin/deposit with any key
AdminDepositCall(id, lamports, key) ==
    /\ ops < MaxOps
    /\ ops' = ops + 1
    /\ LET g == AdminGuard(admin.validKey, key)
           status == IF g # 0 THEN g ELSE IF index[id] = 0 THEN 404 ELSE 200
       IN  /\ admin' = [admin EXCEPT !.adminKey = key, !.op = "deposit",
                                     !.status = status]
           /\ IF status = 200
              THEN /\ objs' = [objs EXCEPT ![index[id]] =
                                  CreditDeposit(@, lamports, 0)]
                   /\ index' = index
                   /\ SaveData
              ELSE UNCHANGED <<ledgerVars, saved>>
    /\ UNCHANGED <<gatewayVars, depositVars, limiter, entry>>

(* --------------------- deposit reconciler (SOL) ------------------------ *)
CycIds == 1..MaxCyc

IdleCyc == [pc |-> "idle", sigs |-> <<>>, i |-> 0]

\* a transaction of the sponsor wallet as getSignaturesForAddress and
\* getTransaction show it: sig.err, the memo, and the wallet's
\* postBalance - preBalance
DepositOf(id) == [err |-> FALSE, memo |-> id, delta |-> 5000]

Entries ==
    {DepositOf(id) : id \in ProjectIds}
    \cup {[err |-> TRUE, memo |-> "proj_1", delta |-> 0],
          [err |-> FALSE, memo |-> "proj_1", delta |-> -5000]}

\* somebody sends a transaction that touches the sponsor wallet
Transfer(e) ==
    /\ Arrive
    /\ Len(chain) < MaxChain
    /\ chain' = Append(chain, e)
    /\ UNCHANGED <<ledgerVars, gatewayVars, cyc, lastSignature, sigCredits>>
    /\ UNCHANGED saved

\* getSignaturesForAddress(MY_WALLET, {limit: 20}): newest first
Signatures ==
    [k \in 1..Min(Len(chain), SigLimit) |-> Len(chain) - k + 1]

\* setInterval(checkDeposits, 30000) and the call at startup: a cycle starts
\* whether or not an earlier one is still awaiting
BeginCycle(c) ==
    /\ cyc[c].pc = "idle"
    /\ \A q \in 1..(c - 1) : cyc[q].pc # "idle"
    /\ cyc' = [cyc EXCEPT ![c].pc = "sigs"]
    /\ UNCHANGED <<ledgerVars, gatewayVars, chain, lastSignature, sigCredits>>
    /\ UNCHANGED saved

StartCycle(c) == Arrive /\ BeginCycle(c)

\* the for loop from entry i up to its next await: 0 when the loop ends (the
\* cursor is met or the list is exhausted), else the entry whose
\* getTransaction is awaited
RECURSIVE Scan(_, _, _)
Scan(sigs, i, last) ==
    IF i > Len(sigs) THEN 0
    ELSE IF sigs[i] = last THEN 0
    ELSE IF chain[sigs[i]].err THEN Scan(sigs, i + 1, last)
    ELSE i

\* the cursor after the loop: signatures[0].signature
CursorAfter(sigs) == sigs[1]

\* run cycle c on from entry i of its list
Continue(c, sigs, i) ==
    LET j == Scan(sigs, i, lastSignature)
    IN  IF j = 0
        THEN /\ cyc' = [cyc EXCEPT ![c] = IdleCyc]
             /\ lastSignature' = CursorAfter(sigs)
        ELSE /\ cyc' = [cyc EXCEPT ![c] = [pc |-> "tx", sigs |-> sigs, i |-> j]]
             /\ lastSignature' = lastSignature

SigsReply(c, k) ==
    /\ UNCHANGED <<ops, limiter, entry, admin>>
    /\ cyc[c].pc = "sigs"
    /\ IF k = "throw" \/ Len(chain) = 0
       THEN /\ cyc' = [cyc EXCEPT ![c] = IdleCyc]
            /\ lastSignature' = lastSignature
       ELSE Continue(c, Signatures, 1)
    /\ UNCHANGED <<ledgerVars, gatewayVars, chain, sigCredits>>
    /\ UNCHANGED saved

\* mutant: the credit is taken from the fee payer's balances (account 0),
\* whose decrease is the amount sent plus the 5000 lamport fee
DepositLamportsOfPayer(e) == IF e.delta > 0 THEN e.delta + 5000 ELSE 0

\* mutant: the size of the wallet's balance change is credited, whatever its
\* direction
DepositLamportsAbs(e) == IF e.delta > 0 THEN e.delta ELSE -e.delta

\* the lamports checkDeposits credits for a fetched transaction, 0 = none
DepositLamports(e) == IF e.delta > 0 THEN e.delta ELSE 0

\* the project credited for a fetched transaction, 0 = none
DepositTarget(e) ==
    IF e.memo \in ProjectIds /\ DepositLamports(e) > 0 THEN index[e.memo] ELSE 0

\* mutant: the cursor update sits in a finally block, so it also runs when
\* the cycle ends in the catch
GetTxReplyFinally(c, k) ==
    /\ UNCHANGED <<ops, limiter, entry, admin>>
    /\ cyc[c].pc = "tx"
    /\ LET s == cyc[c].sigs[cyc[c].i]
           e == chain[s]
           o == DepositTarget(e)
       IN  CASE k = "ok" ->
                  /\ IF o # 0
                     THEN /\ objs' = [objs EXCEPT ![o] =
                                         CreditDeposit(@, DepositLamports(e), s)]
                          /\ sigCredits' = [sigCredits EXCEPT ![s] = @ + 1]
                     ELSE UNCHANGED <<objs, sigCredits>>
                  /\ Continue(c, cyc[c].sigs, cyc[c].i + 1)
             [] k = "null" ->
                  /\ Continue(c, cyc[c].sigs, cyc[c].i + 1)
                  /\ UNCHANGED <<objs, sigCredits>>
             [] k \in {"throw", "malformed"} ->
                  /\ cyc' = [cyc EXCEPT ![c] = IdleCyc]
                  /\ lastSignature' = CursorAfter(cyc[c].sigs)
                  /\ UNCHANGED <<objs, sigCredits>>
    /\ UNCHANGED <<index, gatewayVars, chain>>
    /\ IF k = "ok" /\ DepositTarget(chain[cyc[c].sigs[cyc[c].i]]) # 0
       THEN SaveData ELSE UNCHANGED saved

\* getTransaction answers: the transaction, no result, a thrown fetch, or a
\* result without the fields read (a TypeError): both of the last end the cycle
\* in the catch
GetTxReply(c, k) ==
    /\ UNCHANGED <<ops, limiter, entry, admin>>
    /\ cyc[c].pc = "tx"
    /\ LET s == cyc[c].sigs[cyc[c].i]
           e == chain[s]
           o == DepositTarget(e)
       IN  CASE k = "ok" ->
                  /\ IF o # 0
                     THEN /\ objs' = [objs EXCEPT ![o] =
                                         CreditDeposit(@, DepositLamports(e), s)]
                          /\ sigCredits' = [sigCredits EXCEPT ![s] = @ + 1]
                     ELSE UNCHANGED <<objs, sigCredits>>
                  /\ Continue(c, cyc[c].sigs, cyc[c].i + 1)
             [] k = "null" ->
                  /\ Continue(c, cyc[c].sigs, cyc[c].i + 1)
                  /\ UNCHANGED <<objs, sigCredits>>
             [] k \in {"throw", "malformed"} ->
                  /\ cyc' = [cyc EXCEPT ![c] = IdleCyc]
                  /\ UNCHANGED <<objs, sigCredits, lastSignature>>
    /\ UNCHANGED <<index, gatewayVars, chain>>
    /\ IF k = "ok" /\ DepositTarget(chain[cyc[c].sigs[cyc[c].i]]) # 0
       THEN SaveData ELSE UNCHANGED saved

(* --------------------- deposit reconciler (USDC) ----------------------- *)
\* the sponsor's USDC token account: ataResult.result.value[0].pubkey
UsdcAccount == "usdcAccount"

EntryKinds == {"SOL", "USDC"}

NoTransaction == [memo |-> "", delta |-> 0, ixs |-> <<>>, inner |-> <<>>]

IdleEntry ==
    [pc |-> "none", signature |-> 0, tx |-> NoTransaction,
     usdcAmount |-> 0, lamportsCredit |-> 0]

\* the amounts (minor units) of the token instructions
UsdcAmounts == {35, UsdcUnit}

\* parsed token instructions, ix.parsed: a transfer names no mint, a
\* transferChecked names one, and one into the sponsor's account names USDC
Instructions ==
    {[type |-> "transfer", destination |-> d, mint |-> "none", amount |-> a] :
        d \in {UsdcAccount, "other"}, a \in UsdcAmounts}
    \cup {[type |-> "transferChecked", destination |-> dm[1], mint |-> dm[2],
           amount |-> a] :
            dm \in {<<UsdcAccount, USDC_MINT>>, <<"other", USDC_MINT>>,
                    <<"other", "otherMint">>},
            a \in UsdcAmounts}

SeqsUpTo(S, n) == UNION {[1..k -> S] : k \in 0..n}

\* results of getTransaction on a signature of the USDC account: the memo,
\* tx.transaction.message.instructions and tx.meta.innerInstructions
UsdcTransactions ==
    {[memo |-> m, delta |-> 0, ixs |-> x, inner |-> y] :
        m \in ProjectIds, x \in SeqsUpTo(Instructions, MaxIxs),
        y \in SeqsUpTo(Instructions, MaxInner)}

\* results of getTransaction on a signature of the sponsor wallet
SolTransactions ==
    {[memo |-> m, delta |-> d, ixs |-> <<>>, inner |-> <<>>] :
        m \in ProjectIds,
        d \in {-CostLamports, 0, 1, CostLamports, LamportsPerSol}}

IsTransfer(ix) == ix.type \in {"transfer", "transferChecked"}

\* the loop over tx.transaction.message.instructions: every match overwrites
RECURSIVE TopLevelAmount(_, _, _)
TopLevelAmount(ixs, i, usdcAmount) ==
    IF i > Len(ixs) THEN usdcAmount
    ELSE TopLevelAmount(ixs, i + 1,
            IF /\ IsTransfer(ixs[i])
               /\ \/ ixs[i].destination = UsdcAccount
                  \/ ixs[i].mint = USDC_MINT
            THEN ixs[i].amount ELSE usdcAmount)

\* the loop over tx.meta.innerInstructions
RECURSIVE InnerAmount(_, _, _)
InnerAmount(ixs, i, usdcAmount) ==
    IF i > Len(ixs) THEN usdcAmount
    ELSE InnerAmount(ixs, i + 1,
            IF IsTransfer(ixs[i]) /\ ixs[i].destination = UsdcAccount
            THEN ixs[i].amount ELSE usdcAmount)

\* usdcAmount after both loops
UsdcAmount(tx) == InnerAmount(tx.inner, 1, TopLevelAmount(tx.ixs, 1, 0))

\* the amounts below 200 for which (usdcAmount / 1e6) * 10_000_000 falls
\* short of the integer in IEEE-754 doubles (35 gives 349.99999999999994)
ConversionShort == {35, 65, 70, 75, 99, 130, 140, 150, 169, 179, 198}

\* mutant: the minor units are credited as lamports one for one
UsdcAsLamports(usdcAmount) == usdcAmount

\* lamportsCredit = Math.floor((usdcAmount / 1e6) * USDC_TO_LAMPORTS_RATE),
\* for the amounts of UsdcAmounts
UsdcToLamports(usdcAmount) ==
    LET exact == usdcAmount * (UsdcToLamportsRate \div UsdcUnit)
    IN  IF usdcAmount \in ConversionShort THEN exact - 1 ELSE exact

\* the loop body of checkUsdcDeposits on a fetched transaction
UsdcEntry ==
    /\ entry["USDC"].pc = "fetched"
    /\ LET tx == entry["USDC"].tx
           o == IF tx.memo \in ProjectIds THEN index[tx.memo] ELSE 0
           usdcAmount == IF o = 0 THEN 0 ELSE UsdcAmount(tx)
           lamportsCredit ==
               IF usdcAmount > 0 THEN UsdcToLamports(usdcAmount) ELSE 0
       IN  /\ IF usdcAmount > 0
              THEN objs' = [objs EXCEPT ![o] =
                              CreditDeposit(@, lamportsCredit,
                                            entry["USDC"].signature)]
              ELSE UNCHANGED objs
           /\ entry' = [entry EXCEPT !["USDC"] =
                          [@ EXCEPT !.pc = "done", !.usdcAmount = usdcAmount,
                                    !.lamportsCredit = lamportsCredit]]
    /\ UNCHANGED <<index, gatewayVars, depositVars, ops, limiter, admin>>
    /\ IF objs' # objs THEN SaveData ELSE UNCHANGED saved

\* the loop body of checkDeposits on a fetched transaction
SolEntry ==
    /\ entry["SOL"].pc = "fetched"
    /\ LET tx == entry["SOL"].tx
           o == DepositTarget(tx)
       IN  /\ IF o # 0
              THEN objs' = [objs EXCEPT ![o] =
                              CreditDeposit(@, DepositLamports(tx),
                                            entry["SOL"].signature)]
              ELSE UNCHANGED objs
           /\ entry' = [entry EXCEPT !["SOL"] =
                          [@ EXCEPT !.pc = "done",
                                    !.lamportsCredit =
                                        IF o # 0 THEN DepositLamports(tx) ELSE 0]]
    /\ UNCHANGED <<index, gatewayVars, depositVars, ops, limiter, admin>>
    /\ IF objs' # objs THEN SaveData ELSE UNCHANGED saved

(* --------------------------- request throttle -------------------------- *)
\* the keys of txLimiter: the X-Project-ID header, else the remote address
ThrottleKeys == {"proj_1", "address"}

Paths == {"sign_and_send", "other"}

\* both stores empty; reached and txReached count the requests of the current
\* window that got past the limiters, last is the outcome of the last request
IdleLimiter ==
    [hits |-> 0, txHits |-> [k \in ThrottleKeys |-> 0],
     reached |-> 0, txReached |-> [k \in ThrottleKeys |-> 0],
     last |-> "none"]

\* mutant: the request that exceeds the budget by one is still let through
OverBudgetByTwo(totalHits, max) == totalHits > max + 1

\* rateLimit({max}): a request is refused when its key's hits in the window,
\* this request included, exceed max
OverBudget(totalHits, max) == totalHits > max

\* a request from the caller's address enters the middleware chain:
\* app.use(limiter) counts it by address, then, on POST /sign_and_send,
\* txLimiter counts it by key; a refused request is answered 429 by the
\* limiter and goes no further
Incoming(path, key) ==
    /\ limiter.hits < MaxHits
    /\ limiter.txHits[key] < MaxTxHits
    /\ LET h == limiter.hits + 1
           t == limiter.txHits[key] + 1
       IN  limiter' =
             IF OverBudget(h, LimiterMax)
             THEN [limiter EXCEPT !.hits = h, !.last = "RateLimited"]
             ELSE IF path # "sign_and_send"
             THEN [limiter EXCEPT !.hits = h, !.reached = @ + 1,
                                  !.last = "handler"]
             ELSE IF OverBudget(t, TxLimiterMax)
             THEN [limiter EXCEPT !.hits = h, !.txHits[key] = t,
                                  !.last = "RateLimited"]
             ELSE [limiter EXCEPT !.hits = h, !.txHits[key] = t,
                                  !.reached = @ + 1, !.txReached[key] = @ + 1,
                                  !.last = "sign_and_send"]
    /\ UNCHANGED <<ledgerVars, gatewayVars, depositVars, ops, entry, admin,
                 saved>>

\* windowMs (60 s) after the address's first hit its counter is dropped
WindowEnd ==
    /\ limiter.hits > 0
    /\ limiter' = [limiter EXCEPT !.hits = 0, !.reached = 0, !.last = "none"]
    /\ UNCHANGED <<ledgerVars, gatewayVars, depositVars, ops, entry, admin,
                 saved>>

\* the same for a key of txLimiter
TxWindowEnd(key) ==
    /\ limiter.txHits[key] > 0
    /\ limiter' = [limiter EXCEPT !.txHits[key] = 0, !.txReached[key] = 0,
                                  !.last = "none"]
    /\ UNCHANGED <<ledgerVars, gatewayVars, depositVars, ops, entry, admin,
                 saved>>

(* ------------------------------ behaviours ----------------------------- *)
VerifyReplies == {"valid", "invalid", "throw"}
SettleReplies == {"success", "failure", "throw"}
SendReplies == {"signature", "error", "throw", "no_signature"}
Headers == PaymentHeaders \cup {NoHeader}

\* the server started without a data.json: let data = loadData()
Init ==
    /\ objs = <<>>
    /\ index = [id \in ProjectIds |-> 0]
    /\ req = [r \in ReqIds |-> IdleReq]
    /\ fund = [f \in FundIds |-> IdleFund]
    /\ refCredits = [h \in PaymentHeaders |-> 0]
    /\ chain = <<>>
    /\ cyc = [c \in CycIds |-> IdleCyc]
    /\ lastSignature = 0
    /\ sigCredits = [s \in 1..MaxChain |-> 0]
    /\ ops = 0
    /\ limiter = IdleLimiter
    /\ entry = [k \in EntryKinds |-> IdleEntry]
    /\ admin = IdleAdmin
    /\ saved = Stored(objs, index)

Next ==
    \/ \E r \in ReqIds, id \in ProjectIds, hdr \in Headers : SignAndSend(r, id, hdr)
    \/ \E r \in ReqIds, v \in VerifyReplies : VerifyReply(r, v)
    \/ \E r \in ReqIds, s \in SettleReplies : SettleReply(r, s)
    \/ \E r \in ReqIds, k \in KoraFailures \cup {"ok"} : KoraReply(r, k)
    \/ \E r \in ReqIds, k \in SendReplies : SendReply(r, k)
    \/ \E f \in FundIds, id \in ProjectIds, hdr \in Headers,
          t \in FundTransactions : FundStart(f, id, hdr, t)
    \/ \E f \in FundIds, v \in VerifyReplies : FundVerifyReply(f, v)
    \/ \E f \in FundIds, s \in SettleReplies : FundSettleReply(f, s)
    \/ Register
    \/ PaygRegister
    \/ \E id \in ProjectIds : AdminProjects(id)
    \/ \E id \in ProjectIds, l \in AdminLamports : AdminDeposit(id, l)
    \/ \E e \in Entries : Transfer(e)
    \/ \E c \in CycIds : StartCycle(c)
    \/ \E c \in CycIds, k \in {"ok", "throw"} : SigsReply(c, k)
    \/ \E c \in CycIds, k \in {"ok", "null", "throw", "malformed"} :
          GetTxReply(c, k)

Spec == Init /\ [][Next]_vars

(* the server started on a data.json that holds one project; loadData takes *)
(* the file as it is, and the file is the only way a project gets           *)
(* active = false or a positive balanceUsdcLamports; requests arrive.  The  *)
(* file can hold a negative balanceLamports: /admin/deposit adds any        *)
(* amount and overlapping requests overdraw, and saveData writes it         *)
Tiers == {"none", "payg", "free"}

LoadedProjects ==
    {[NewProject(t) EXCEPT !.balanceLamports = b, !.balanceUsdcLamports = u,
                           !.active = a] :
        t \in Tiers,
        b \in {-(X402TxCount * CostLamports), 0, CostLamports - 1, CostLamports},
        u \in {0, CostUsdc - 1, CostUsdc}, a \in BOOLEAN}

InitLoaded ==
    /\ \E p \in LoadedProjects :
          /\ objs = <<p>>
          /\ index = [id \in ProjectIds |->
                         IF (id = "proj_1") = (p.tier = "none") THEN 1 ELSE 0]
    /\ req = [r \in ReqIds |-> IdleReq]
    /\ fund = [f \in FundIds |-> IdleFund]
    /\ refCredits = [h \in PaymentHeaders |-> 0]
    /\ chain = <<>>
    /\ cyc = [c \in CycIds |-> IdleCyc]
    /\ lastSignature = 0
    /\ sigCredits = [s \in 1..MaxChain |-> 0]
    /\ ops = 0
    /\ limiter = IdleLimiter
    /\ entry = [k \in EntryKinds |-> IdleEntry]
    /\ admin = IdleAdmin
    /\ saved = Stored(objs, index)

NextLoaded ==
    \/ \E r \in ReqIds, id \in ProjectIds, hdr \in Headers : SignAndSend(r, id, hdr)
    \/ \E r \in ReqIds, v \in VerifyReplies : VerifyReply(r, v)
    \/ \E r \in ReqIds, s \in SettleReplies : SettleReply(r, s)
    \/ \E r \in ReqIds, k \in KoraFailures \cup {"ok"} : KoraReply(r, k)
    \/ \E r \in ReqIds, k \in SendReplies : SendReply(r, k)

SpecLoaded == InitLoaded /\ [][NextLoaded]_vars

(* the server runs with one registered project and the network never fails   *)
(* with an error: transfers arrive and setInterval keeps starting cycles     *)
InitPolling ==
    /\ objs = <<NewProject("none")>>
    /\ index = [id \in ProjectIds |-> IF id = "proj_1" THEN 1 ELSE 0]
    /\ req = [r \in ReqIds |-> IdleReq]
    /\ fund = [f \in FundIds |-> IdleFund]
    /\ refCredits = [h \in PaymentHeaders |-> 0]
    /\ chain = <<>>
    /\ cyc = [c \in CycIds |-> IdleCyc]
    /\ lastSignature = 0
    /\ sigCredits = [s \in 1..MaxChain |-> 0]
    /\ ops = 0
    /\ limiter = IdleLimiter
    /\ entry = [k \in EntryKinds |-> IdleEntry]
    /\ admin = IdleAdmin
    /\ saved = Stored(objs, index)

\* setInterval fires, as long as the process runs
Tick(c) == UNCHANGED <<ops, limiter, entry, admin>> /\ BeginCycle(c)

NextPolling ==
    \/ \E e \in Entries : Transfer(e)
    \/ \E c \in CycIds : Tick(c)
    \/ \E c \in CycIds : SigsReply(c, "ok")
    \/ \E c \in CycIds, k \in {"ok", "null"} : GetTxReply(c, k)

\* the timer keeps firing and every RPC call is answered
FairPolling ==
    /\ WF_vars(\E c \in CycIds : Tick(c))
    /\ WF_vars(\E c \in CycIds : SigsReply(c, "ok"))
    /\ WF_vars(\E c \in CycIds, k \in {"ok", "null"} : GetTxReply(c, k))

SpecPolling == InitPolling /\ [][NextPolling]_vars /\ FairPolling

(* one registered project; the cycles of checkDeposits do not overlap (each  *)
(* ends within the 30 s interval) and the RPC node fails in every way        *)
StartAlone(c) ==
    /\ \A q \in CycIds : cyc[q].pc = "idle"
    /\ StartCycle(c)

NextRetry ==
    \/ \E e \in Entries : Transfer(e)
    \/ \E c \in CycIds : StartAlone(c)
    \/ \E c \in CycIds, k \in {"ok", "throw"} : SigsReply(c, k)
    \/ \E c \in CycIds, k \in {"ok", "null", "throw", "malformed"} :
          GetTxReply(c, k)

SpecRetry == InitPolling /\ [][NextRetry]_vars

(* the same without RPC failures, and the process is restarted at any time   *)
\* the process exits and is started again: data is reloaded from data.json,
\* which saveData wrote after every change, lastSignature is null again, the
\* handlers, cycles and limiter stores of the old process are gone
Restart ==
    /\ ops < MaxOps
    /\ ops' = ops + 1
    /\ lastSignature' = 0
    /\ cyc' = [c \in CycIds |-> IdleCyc]
    /\ req' = [r \in ReqIds |-> IdleReq]
    /\ fund' = [f \in FundIds |-> IdleFund]
    /\ limiter' = IdleLimiter
    /\ UNCHANGED <<ledgerVars, refCredits, chain, sigCredits, entry, admin,
                   saved>>

NextRestart ==
    \/ \E e \in Entries : Transfer(e)
    \/ \E c \in CycIds : StartAlone(c)
    \/ \E c \in CycIds : SigsReply(c, "ok")
    \/ \E c \in CycIds, k \in {"ok", "null"} : GetTxReply(c, k)
    \/ Restart

SpecRestart == InitPolling /\ [][NextRestart]_vars

(* one registered project; each reconciler holds one fetched transaction     *)
InitCredit ==
    /\ objs = <<NewProject("none")>>
    /\ index = [id \in ProjectIds |-> IF id = "proj_1" THEN 1 ELSE 0]
    /\ req = [r \in ReqIds |-> IdleReq]
    /\ fund = [f \in FundIds |-> IdleFund]
    /\ refCredits = [h \in PaymentHeaders |-> 0]
    /\ chain = <<>>
    /\ cyc = [c \in CycIds |-> IdleCyc]
    /\ lastSignature = 0
    /\ sigCredits = [s \in 1..MaxChain |-> 0]
    /\ ops = 0
    /\ limiter = IdleLimiter
    /\ \E t \in SolTransactions, u \in UsdcTransactions :
          entry = [k \in EntryKinds |->
                     [IdleEntry EXCEPT
                         !.pc = "fetched",
                         !.signature = IF k = "SOL" THEN 1 ELSE 2,
                         !.tx = IF k = "SOL" THEN t ELSE u]]
    /\ admin = IdleAdmin
    /\ saved = Stored(objs, index)

NextCredit ==
    \/ SolEntry
    \/ UsdcEntry

SpecCredit == InitCredit /\ [][NextCredit]_vars

(* the server started on a data.json that holds one project; POST /fund     *)
(* requests arrive with these values of body.transactions (parseInt of it,   *)
(* 0 = absent, zero or unparsable); Math.floor(parseFloat(price) / 0.001) is *)
(* n for the n = -5, 100 and 10000 they lead to, and 42 for 43              *)
FundBodies == {0, 43, -5, MaxTxCount + 1}

NextFund ==
    \/ \E f \in FundIds, id \in ProjectIds, hdr \in Headers, t \in FundBodies :
          FundStart(f, id, hdr, t)
    \/ \E f \in FundIds, v \in VerifyReplies : FundVerifyReply(f, v)
    \/ \E f \in FundIds, t \in SettleReplies : FundSettleReply(f, t)

SpecFund == InitLoaded /\ [][NextFund]_vars

(* the server started on a data.json that holds one project, with or        *)
(* without an admin key configured; admin requests arrive with any key       *)
InitAdmin ==
    /\ \E p \in {q \in LoadedProjects :
                    q.active /\ q.balanceUsdcLamports = 0} :
          /\ objs = <<p>>
          /\ index = [id \in ProjectIds |->
                         IF (id = "proj_1") = (p.tier = "none") THEN 1 ELSE 0]
    /\ req = [r \in ReqIds |-> IdleReq]
    /\ fund = [f \in FundIds |-> IdleFund]
    /\ refCredits = [h \in PaymentHeaders |-> 0]
    /\ chain = <<>>
    /\ cyc = [c \in CycIds |-> IdleCyc]
    /\ lastSignature = 0
    /\ sigCredits = [s \in 1..MaxChain |-> 0]
    /\ ops = 0
    /\ limiter = IdleLimiter
    /\ entry = [k \in EntryKinds |-> IdleEntry]
    /\ \E v \in ConfiguredKeys : admin = [IdleAdmin EXCEPT !.validKey = v]
    /\ saved = Stored(objs, index)

NextAdmin ==
    \/ \E id \in ProjectIds, named \in BOOLEAN, key \in AdminKeys :
          AdminProjectsCall(id, named, key)
    \/ \E id \in ProjectIds, l \in AdminLamports, key \in AdminKeys :
          AdminDepositCall(id, l, key)

SpecAdmin == InitAdmin /\ [][NextAdmin]_vars

(* the requests of one caller address against the two limiters              *)
NextThrottle ==
    \/ \E path \in Paths, key \in ThrottleKeys : Incoming(path, key)
    \/ WindowEnd
    \/ \E key \in ThrottleKeys : TxWindowEnd(key)

SpecThrottle == Init /\ [][NextThrottle]_vars

(* ------------------------------- claims -------------------------------- *)
Live == {index[id] : id \in ProjectIds} \ {0}

UpstreamFailed(rq) ==
    rq.kind \in {"UpstreamSigningError", "UpstreamBroadcastError"}

\* the request has run the tier check
Checked(rq) ==
    /\ rq.pc \in {"kora", "send", "done"}
    /\ rq.kind \notin {"NotFound", "ProjectInactive"}

\* C1: every project's balanceLamports and balanceUsdcLamports is >= 0 at
\* every point another request or poll cycle can observe
BalancesNonNegative ==
    \A o \in Live :
        objs[o].balanceLamports >= 0 /\ objs[o].balanceUsdcLamports >= 0

\* C2: two overlapping requests against a project funded with exactly one unit
\* cost never both pass the check and both succeed
OneUnitOneSuccess ==
    \A r1, r2 \in ReqIds :
        ( /\ r1 # r2
          /\ req[r1].obj # 0
          /\ req[r1].obj = req[r2].obj
          /\ r1 \in req[r2].inflight
          /\ objs[req[r1].obj].credited = CostLamports
          /\ req[r1].balAtCheck = CostLamports
          /\ req[r2].balAtCheck = CostLamports )
        => ~(req[r1].kind = "Success" /\ req[r2].kind = "Success")

\* C3 as claimed: a request whose signing or broadcast failed has changed no
\* balance and no totalTxs, also when it carried a payment proof
FailedRequestMutatesNothing ==
    \A r \in ReqIds :
        UpstreamFailed(req[r])
        => req[r].dLamports = 0 /\ req[r].dUsdc = 0 /\ req[r].dTxs = 0

\* C3 as amended: a request whose signing or broadcast failed has debited
\* nothing and counted no transaction; the only ledger change it made is the
\* credit of its own settled payment proof (100 units of balanceLamports), and
\* the step that fails changes no project at all
FailedRequestDebitsNothing ==
    /\ [](\A r \in ReqIds :
            UpstreamFailed(req[r])
            => /\ req[r].dTxs = 0
               /\ req[r].dUsdc = 0
               /\ req[r].dLamports =
                     IF req[r].settled THEN X402TxCount * CostLamports ELSE 0)
    /\ [][\A r \in ReqIds :
            (~UpstreamFailed(req[r]) /\ UpstreamFailed(req'[r]))
            => objs' = objs]_vars

FailedAfterCredit ==
    \E r \in ReqIds :
        /\ UpstreamFailed(req[r])
        /\ req[r].settled
        /\ req[r].obj \in Live
        /\ objs[req[r].obj].balanceLamports = X402TxCount * CostLamports

\* C4: the step of a request whose broadcast returned a signature debits
\* exactly one unit cost from exactly one of the project's two balances,
\* leaves the other balance alone and adds exactly 1 to totalTxs
ExactlyOneDebit ==
    [][\A r \in ReqIds :
          (req[r].pc = "send" /\ req'[r].kind = "Success")
          => LET p == objs[req[r].obj]
                 q == objs'[req[r].obj]
             IN  /\ q.totalTxs = p.totalTxs + 1
                 /\ \/ /\ q.balanceLamports = p.balanceLamports - CostLamports
                       /\ q.balanceUsdcLamports = p.balanceUsdcLamports
                    \/ /\ q.balanceUsdcLamports = p.balanceUsdcLamports - CostUsdc
                       /\ q.balanceLamports = p.balanceLamports
                 /\ \A o \in 1..Len(objs) : o # req[r].obj => objs'[o] = objs[o]
      ]_vars

DebitedFromEach ==
    /\ \E r \in ReqIds : req[r].kind = "Success" /\ req[r].paidWith = "USDC"
                         /\ req[r].dUsdc = -CostUsdc /\ req[r].dTxs = 1
    /\ \E r \in ReqIds : req[r].kind = "Success" /\ req[r].paidWith = "SOL"
                         /\ req[r].dLamports = -CostLamports /\ req[r].dTxs = 1

\* C5: the funding source a request selects at its tier check: without tier
\* 'payg'/'free' only balanceLamports counts; with it SOL is selected whenever
\* balanceLamports covers the SOL unit cost, USDC only when SOL does not cover
\* and balanceUsdcLamports covers the USDC unit cost, and the shortfall
\* response is given only when neither covers
SelectionRule ==
    [][\A r \in ReqIds :
          (~Checked(req[r]) /\ Checked(req'[r]))
          => LET p    == objs'[req'[r].obj]
                 payg == p.tier \in {"payg", "free"}
                 sol  == p.balanceLamports >= CostLamports
                 usdc == p.balanceUsdcLamports >= CostUsdc
                 out  == IF req'[r].kind = "InsufficientBalance"
                         THEN "none" ELSE req'[r].sel
             IN  /\ req'[r].kind = "InsufficientBalance" \/ req'[r].pc = "kora"
                 /\ ~payg => out = (IF sol THEN "SOL" ELSE "none")
                 /\ payg => out = (IF sol THEN "SOL"
                                   ELSE IF usdc THEN "USDC" ELSE "none")
                 /\ payg /\ out # "none" => p.payWith = out
      ]_vars

\* with both balances covering, one request selected SOL and was debited;
\* the next one, SOL now short, selected USDC
SelectedEitherWay ==
    \E r1, r2 \in ReqIds :
        /\ req[r1].obj # 0
        /\ req[r1].obj = req[r2].obj
        /\ objs[req[r1].obj].tier \in {"payg", "free"}
        /\ req[r1].sel = "SOL" /\ req[r1].kind = "Success"
        /\ req[r2].sel = "USDC" /\ req[r2].pc = "kora"
        /\ objs[req[r1].obj].balanceUsdcLamports >= CostUsdc

\* C10: a request for an unknown or an inactive project has no side effect:
\* no payment proof was verified or settled, nothing was credited or debited
\* and the signing service was not called
RejectedHasNoSideEffect ==
    \A r \in ReqIds :
        req[r].kind \in {"NotFound", "ProjectInactive"}
        => /\ ~req[r].verified
           /\ ~req[r].settled
           /\ ~req[r].forwarded
           /\ req[r].dLamports = 0 /\ req[r].dUsdc = 0 /\ req[r].dTxs = 0

\* C6: no cycle credits an entry at or before the stored cursor (so a cycle
\* that fetches the list the previous one completed on credits nothing)
NoCreditAtOrBeforeCursor ==
    [][\A s \in 1..MaxChain :
          sigCredits'[s] > sigCredits[s] => s > lastSignature]_vars

\* C7: a payment settlement reference is credited at most once
SettlementCreditedOnce == \A h \in PaymentHeaders : refCredits[h] <= 1

\* a successful transfer to the sponsor wallet with the id of a known project
\* as its memo
IsDeposit(s) ==
    /\ s <= Len(chain)
    /\ ~chain[s].err
    /\ chain[s].delta > 0
    /\ chain[s].memo \in ProjectIds
    /\ index[chain[s].memo] # 0

\* C8: every deposit is eventually credited, provided polling keeps running
EveryDepositCredited ==
    \A s \in 1..MaxChain : [](IsDeposit(s) => <>(sigCredits[s] > 0))

\* the only credit project id ever got is for one transfer of 5000 lamports
\* to the sponsor wallet with memo id, which checkDeposits has seen
DepositedOnce(id) ==
    LET p == objs[index[id]]
    IN  /\ p.credits = 1
        /\ p.lastDeposit.txSignature \in 1..Len(chain)
        /\ chain[p.lastDeposit.txSignature] =
              [err |-> FALSE, memo |-> id, delta |-> 5000]

Successes(o) == {r \in ReqIds : req[r].obj = o /\ req[r].kind = "Success"}

Covering(o) ==
    SelectSource(objs[o].tier, objs[o].balanceLamports,
                 objs[o].balanceUsdcLamports)

\* C11: the payment verifier is invoked for a request on a known active
\* project only when no funding source of the project covers the unit cost:
\* a proof sent for a covered project is not verified, settled or credited
VerifierOnlyWhenUncovered ==
    [][\A r \in ReqIds :
          ( /\ req'[r].obj # 0
            /\ objs[req'[r].obj].active
            /\ \/ ~req[r].verified /\ req'[r].verified
               \/ ~req[r].settled /\ req'[r].settled )
          => Covering(req'[r].obj) = "none"
      ]_vars

\* C12: when the facilitator reports the proof of a request on a known active
\* project with zero balance settled, the same step credits the batch of 100
\* units to balanceLamports once, passes the funding check and forwards the
\* request to the signing service
SettledProofFundsRequest ==
    [][\A r \in ReqIds :
          ( /\ ~req[r].settled /\ req'[r].settled
            /\ objs[req[r].obj].active
            /\ objs[req[r].obj].balanceLamports = 0
            /\ objs[req[r].obj].balanceUsdcLamports = 0 )
          => /\ objs'[req[r].obj].balanceLamports = X402TxCount * CostLamports
             /\ objs'[req[r].obj].credits = objs[req[r].obj].credits + 1
             /\ req'[r].dLamports = X402TxCount * CostLamports
             /\ req'[r].pc = "kora"
             /\ req'[r].forwarded
             /\ req'[r].sel = "SOL"
      ]_vars

\* a request on a project with zero balance was funded by its proof and the
\* sponsored transaction went through
FundedByProof ==
    \E r \in ReqIds :
        /\ req[r].settled
        /\ req[r].balAtCheck = X402TxCount * CostLamports
        /\ req[r].kind = "Success"
        /\ req[r].dLamports = (X402TxCount - 1) * CostLamports

\* the request's proof was refused by the facilitator (verify or settle)
ProofRefused(rq) ==
    rq.verified /\ ~rq.settled /\ rq.pc \notin {"verify", "settle"}

\* C13: a request whose payment proof fails verification or settlement
\* credits nothing and is not forwarded to the signing service
RefusedProofIsTerminal ==
    \A r \in ReqIds :
        ProofRefused(req[r])
        => /\ ~req[r].forwarded
           /\ req[r].dLamports = 0 /\ req[r].dUsdc = 0 /\ req[r].dTxs = 0

\* C14: when the tier check of a request finds no funding source covering the
\* unit cost, the request ends there with HTTP 402, the response states the
\* receiving address, the required amount and the project id as memo, the
\* signing service is not called and the step changes no project
ShortfallResponse ==
    [][\A r \in ReqIds :
          ( /\ ~Checked(req[r]) /\ Checked(req'[r])
            /\ objs'[req'[r].obj].balanceLamports < CostLamports
            /\ \/ objs'[req'[r].obj].tier \notin {"payg", "free"}
               \/ objs'[req'[r].obj].balanceUsdcLamports < CostUsdc )
          => /\ req'[r].pc = "done"
             /\ req'[r].kind = "InsufficientBalance"
             /\ req'[r].status = 402
             /\ req'[r].payTo = MY_WALLET
             /\ req'[r].required = CostLamports
             /\ req'[r].memo = req'[r].id
             /\ ~req'[r].forwarded
             /\ req'[r].dLamports = 0 /\ req'[r].dUsdc = 0 /\ req'[r].dTxs = 0
             /\ objs' = objs
      ]_vars

\* C15: every refusal for insufficient balance, whatever the tier, is HTTP 402
\* and carries in X-Payment-Required the requirements of
\* createPaymentRequirements(100)
ShortfallCarriesRequirements ==
    \A r \in ReqIds :
        req[r].kind = "InsufficientBalance"
        => req[r].status = 402 /\ req[r].payReq = Requirements(X402TxCount)

\* data.projects[id].totalTxs, 0 when there is no such project
TotalTxsOf(id) == IF index[id] = 0 THEN 0 ELSE objs[index[id]].totalTxs

\* C16: a project's totalTxs never decreases, and a step adds to it exactly
\* the number of requests of the project whose broadcast returned a signature
\* in that step (at most one)
TotalTxsCountsBroadcasts ==
    [][\A id \in ProjectIds :
          /\ TotalTxsOf(id)' >= TotalTxsOf(id)
          /\ TotalTxsOf(id)' - TotalTxsOf(id) =
                Cardinality({r \in ReqIds :
                               /\ req'[r].id = id
                               /\ req[r].kind # "Success"
                               /\ req'[r].kind = "Success"})
      ]_vars

\* C17: a project, once created, is never removed or replaced, and no
\* registration of any kind resets its balances, totalTxs or tier
ProjectNeverReplaced ==
    [][/\ \A id \in ProjectIds :
            index[id] # 0
            => /\ index'[id] = index[id]
               /\ objs'[index[id]].tier = objs[index[id]].tier
       /\ Len(objs') > Len(objs)
          => /\ objs'[Len(objs')].balanceLamports = 0
             /\ objs'[Len(objs')].balanceUsdcLamports = 0
             /\ objs'[Len(objs')].totalTxs = 0
             /\ \A o \in 1..Len(objs) : objs'[o] = objs[o]
      ]_vars

\* C18: a balance of a project decreases only in the step in which the
\* broadcast of one of its POST /sign_and_send requests returned a signature;
\* deposits, payment credits and POST /admin/deposit never decrease one
OnlyTheGatewayDebits ==
    [][\A o \in 1..Len(objs) :
          ( \/ objs'[o].balanceLamports < objs[o].balanceLamports
            \/ objs'[o].balanceUsdcLamports < objs[o].balanceUsdcLamports )
          => \E r \in ReqIds :
                /\ req[r].obj = o
                /\ req[r].pc = "send"
                /\ req'[r].kind = "Success"
      ]_vars

\* C20: no update is lost: whatever the interleaving of deposits, payment
\* credits, admin deposits and debits on a project, its balance in each asset
\* is its balance at creation (0) plus the credits applied minus the debits
\* applied
NoLostUpdate ==
    \A o \in 1..Len(objs) :
        /\ objs[o].balanceLamports = objs[o].credited - objs[o].debited
        /\ objs[o].balanceUsdcLamports = 0 - objs[o].debitedUsdc

\* a project credited by a deposit and, while a request awaited, by a payment
\* proof, and debited once
CreditedTwiceDebitedOnce ==
    \E o \in 1..Len(objs) :
        /\ objs[o].credits >= 2
        /\ objs[o].credited = CostLamports + X402TxCount * CostLamports
        /\ objs[o].debited = CostLamports
        /\ objs[o].balanceLamports = X402TxCount * CostLamports
        /\ \E r \in ReqIds : req[r].obj = o /\ req[r].settled
                              /\ req[r].inflight # {}

\* C19: within one window at most 100 requests of an address reach a handler
\* and at most 20 POST /sign_and_send requests per throttle key reach the
\* metering handler; a request is refused exactly when it is over one of the
\* budgets, and a refused request changes no project, starts no payment
\* verification and no call to the signing service
ThrottleBudgets ==
    /\ [](/\ limiter.reached <= LimiterMax
           /\ \A k \in ThrottleKeys : limiter.txReached[k] <= TxLimiterMax)
    /\ [][limiter'.hits > limiter.hits
           => /\ (limiter'.last = "RateLimited")
                 <=> \/ limiter'.hits > LimiterMax
                     \/ \E k \in ThrottleKeys :
                           /\ limiter'.txHits[k] > limiter.txHits[k]
                           /\ limiter'.txHits[k] > TxLimiterMax
              /\ (limiter'.last = "RateLimited")
                 => /\ limiter'.reached = limiter.reached
                    /\ limiter'.txReached = limiter.txReached
                    /\ UNCHANGED <<objs, index, req, fund, refCredits>>
         ]_vars

\* the address has used up its window, 20 of its 100 requests went to the
\* metering handler under one key, and the 101st was refused
BudgetsUsedUp ==
    /\ limiter.last = "RateLimited"
    /\ limiter.hits = LimiterMax + 1
    /\ limiter.reached = LimiterMax
    /\ limiter.txReached["proj_1"] = TxLimiterMax

\* C21: the deposit cursor only advances: it is never replaced by the
\* signature of an older transaction, also when poll cycles overlap
CursorOnlyAdvances == [][lastSignature' >= lastSignature]_vars

\* C22: when a fetch or the parsing of its response throws during a poll
\* cycle, the cycle ends there with the cursor and the ledger as they were,
\* and the poller is free to start the next cycle from the same cursor
ErrorAbortsCycle ==
    [][\A c \in CycIds :
          (SigsReply(c, "throw") \/ GetTxReply(c, "throw"))
          => /\ lastSignature' = lastSignature
             /\ objs' = objs
             /\ cyc'[c] = IdleCyc
             /\ \A q \in CycIds : q # c => cyc'[q] = cyc[q]
      ]_vars

\* a cycle credited the newest of two transactions and was aborted at the
\* older one: the cursor is still null and the poller idle
AbortedAfterCredit ==
    /\ Len(chain) = 2
    /\ sigCredits[2] = 1
    /\ sigCredits[1] = 0
    /\ chain[1].delta > 0
    /\ lastSignature = 0
    /\ \A c \in CycIds : cyc[c] = IdleCyc

\* C23: a transaction result that lacks the fields read is skipped: the cycle
\* goes on to the remaining entries and, when they are exhausted, advances
\* the cursor
MalformedEntrySkipped ==
    [][\A c \in CycIds :
          GetTxReply(c, "malformed")
          => LET j == Scan(cyc[c].sigs, cyc[c].i + 1, lastSignature)
             IN  IF j = 0
                 THEN lastSignature' = CursorAfter(cyc[c].sigs)
                 ELSE cyc'[c].pc = "tx" /\ cyc'[c].i = j
      ]_vars

\* C27: checkDeposits credits a project for a transaction only if the
\* transaction did not fail, its memo is the id of an existing project and
\* the sponsor wallet's balance rose in it; the credit is that rise, added to
\* that project's balanceLamports, and nothing else changes a project
CreditOnlyForDeposit ==
    [][/\ \A s \in 1..MaxChain :
            sigCredits'[s] > sigCredits[s]
            => /\ s <= Len(chain)
               /\ ~chain[s].err
               /\ chain[s].delta > 0
               /\ chain[s].memo \in ProjectIds
               /\ index[chain[s].memo] # 0
               /\ sigCredits'[s] = sigCredits[s] + 1
               /\ LET o == index[chain[s].memo]
                  IN  /\ objs'[o].balanceLamports =
                            objs[o].balanceLamports + chain[s].delta
                      /\ \A q \in 1..Len(objs) : q # o => objs'[q] = objs[q]
       /\ (cyc' # cyc /\ objs' # objs)
          => \E s \in 1..MaxChain : sigCredits'[s] > sigCredits[s]
      ]_vars

\* an outgoing transaction with the project's memo and then a deposit were
\* both processed: only the deposit was credited
DepositCreditedOutgoingNot ==
    /\ Len(chain) = 2
    /\ chain[1] = [err |-> FALSE, memo |-> "proj_1", delta |-> -5000]
    /\ chain[2] = DepositOf("proj_1")
    /\ sigCredits = <<0, 1>>
    /\ lastSignature = 2
    /\ objs[index["proj_1"]].balanceLamports = 5000

\* C29: a cycle that retries from the unchanged cursor after an aborted one
\* does not credit again what the aborted cycle credited
RetryDoesNotRecredit == \A s \in 1..MaxChain : sigCredits[s] <= 1

\* C30: after a restart of the process no deposit that was credited before
\* is credited again
RestartDoesNotRecredit ==
    [][\A s \in 1..MaxChain :
          sigCredits'[s] > sigCredits[s] => sigCredits[s] = 0]_vars

\* the minor units the sponsor's USDC account received in a transaction: the
\* transfers, top-level and inner, whose destination it is
RECURSIVE ReceivedIn(_, _)
ReceivedIn(ixs, i) ==
    IF i > Len(ixs) THEN 0
    ELSE (IF IsTransfer(ixs[i]) /\ ixs[i].destination = UsdcAccount
          THEN ixs[i].amount ELSE 0) + ReceivedIn(ixs, i + 1)

Received(tx) == ReceivedIn(tx.ixs, 1) + ReceivedIn(tx.inner, 1)

\* C24: a USDC deposit of X minor units credits exactly
\* floor(X * USDC_TO_LAMPORTS_RATE / 1e6) lamports, a SOL deposit is
\* credited one for one
ConversionLaw ==
    /\ entry["USDC"].pc = "done"
       => entry["USDC"].lamportsCredit =
             entry["USDC"].usdcAmount * (UsdcToLamportsRate \div UsdcUnit)
    /\ (entry["SOL"].pc = "done" /\ entry["SOL"].lamportsCredit > 0)
       => entry["SOL"].lamportsCredit = entry["SOL"].tx.delta

\* C25: a credited deposit of 1 USDC is worth exactly 2,000 times, and a
\* credited deposit of 1 SOL exactly 200,000 times, the lamports that
\* POST /sign_and_send debits for one transaction
PublishedRates ==
    /\ (entry["USDC"].pc = "done" /\ entry["USDC"].usdcAmount = UsdcUnit)
       => entry["USDC"].lamportsCredit = 2000 * CostLamports
    /\ (entry["SOL"].pc = "done" /\ entry["SOL"].tx.delta = LamportsPerSol
           /\ DepositTarget(entry["SOL"].tx) # 0)
       => entry["SOL"].lamportsCredit = 200000 * CostLamports
    /\ (\A k \in EntryKinds : entry[k].pc = "done")
       => objs[1].balanceLamports =
             entry["SOL"].lamportsCredit + entry["USDC"].lamportsCredit
    /\ \A t \in Tiers :
          Debit([NewProject(t) EXCEPT !.payWith = "SOL"]).debited = CostLamports

\* 1 USDC and 1 SOL were both credited to the project
OneUsdcOneSolCredited ==
    /\ entry["USDC"].pc = "done"
    /\ entry["USDC"].usdcAmount = UsdcUnit
    /\ entry["SOL"].pc = "done"
    /\ entry["SOL"].lamportsCredit = LamportsPerSol
    /\ objs[index["proj_1"]].balanceLamports = 1010000000

\* C28: what checkUsdcDeposits takes as the deposited amount of a
\* transaction is at most what the sponsor's USDC account received in it
CreditWithinReceived ==
    entry["USDC"].pc = "done"
    => entry["USDC"].usdcAmount <= Received(entry["USDC"].tx)

\* the consecutive requests the gateway accepts from a project, none failing
RECURSIVE AcceptedRun(_, _)
AcceptedRun(p, fuel) ==
    LET src == SelectSource(p.tier, p.balanceLamports, p.balanceUsdcLamports)
    IN  IF fuel = 0 \/ src = "none" \/ ~p.active THEN 0
        ELSE 1 + AcceptedRun(Debit([p EXCEPT !.payWith = src]), fuel - 1)

\* C26: the estimates a balance query reports for a project equal, for each
\* asset, the number of consecutive requests the gateway would accept from
\* that asset
EstimatesMatchGateway ==
    \A o \in Live :
        objs[o].active
        => /\ EstimatedTxsFromSol(objs[o]) =
                 AcceptedRun([objs[o] EXCEPT !.balanceUsdcLamports = 0],
                             MaxOps)
           /\ objs[o].tier \in {"payg", "free"}
              => EstimatedTxsFromUsdc(objs[o]) =
                    AcceptedRun([objs[o] EXCEPT !.balanceLamports = 0], MaxOps)

\* C31: when cycles of checkDeposits overlap, each deposit is still credited
\* at most once: the project named in its memo never holds more credits than
\* there are deposits for it
OverlapCreditsOnce ==
    \A s \in 1..MaxChain :
        IsDeposit(s)
        => /\ sigCredits[s] <= 1
           /\ objs[index[chain[s].memo]].credits
                 <= Cardinality({t \in 1..MaxChain :
                                   IsDeposit(t) /\ chain[t].memo = chain[s].memo})

\* C32: when a request of a pay-as-you-go project succeeds, the asset debited
\* is the asset that request selected at its balance check, whatever other
\* requests of the project did in between
DebitsSelectedAsset ==
    [][\A r \in ReqIds :
          (SendReply(r, "signature")
             /\ objs[req[r].obj].tier \in {"payg", "free"})
          => LET p == objs[req[r].obj]
                 q == objs'[req[r].obj]
             IN  IF req[r].sel = "USDC"
                 THEN /\ q.balanceUsdcLamports = p.balanceUsdcLamports - CostUsdc
                      /\ q.balanceLamports = p.balanceLamports
                 ELSE /\ q.balanceLamports = p.balanceLamports - CostLamports
                      /\ q.balanceUsdcLamports = p.balanceUsdcLamports
      ]_vars

\* C33: verifyPayment never throws into the handler and reports valid only
\* when verify answered valid and settle then answered success: settle is
\* called only after a valid verify, a credit is applied only on a
\* successful settle, and every other answer or thrown error ends as
\* valid:false with a reason, nothing credited
VerifierContract ==
    [][/\ \A r \in ReqIds :
            (req'[r].pc = "settle" /\ req[r].pc # "settle")
            => VerifyReply(r, "valid")
       /\ \A f \in FundIds :
            (fund'[f].pc = "settle" /\ fund[f].pc # "settle")
            => FundVerifyReply(f, "valid")
       /\ (refCredits' # refCredits)
          => \/ \E r \in ReqIds : SettleReply(r, "success")
             \/ \E f \in FundIds : FundSettleReply(f, "success")
       /\ \A f \in FundIds :
            (\/ \E v \in VerifyReplies \ {"valid"} : FundVerifyReply(f, v)
             \/ \E t \in SettleReplies \ {"success"} : FundSettleReply(f, t))
            => /\ fund'[f].status = 402
               /\ fund'[f].details # "none"
               /\ objs' = objs
               /\ refCredits' = refCredits
       /\ \A r \in ReqIds :
            (\/ \E v \in VerifyReplies \ {"valid"} : VerifyReply(r, v)
             \/ \E t \in SettleReplies \ {"success"} : SettleReply(r, t))
            => /\ ~req'[r].settled
               /\ req'[r].dLamports = 0
               /\ refCredits' = refCredits
               /\ req'[r].pc # "settle"
      ]_vars

\* a /fund request whose payment was verified but not settled was answered
\* 402 with the reason, and a /sign_and_send request whose payment failed went
\* on to the balance check; nothing was credited
RefusedWithReason ==
    /\ \E f \in FundIds :
          /\ fund[f].status = 402
          /\ fund[f].details = "result.error"
    /\ \E r \in ReqIds :
          /\ req[r].hdr # NoHeader
          /\ req[r].verified
          /\ ~req[r].settled
          /\ req[r].pc = "done"
    /\ \A h \in PaymentHeaders : refCredits[h] = 0

\* C34: the credit of a verified payment is the unit count its requirement
\* was sized for, times the lamports of one transaction
CreditMatchesRequirement ==
    \A f \in FundIds :
        fund[f].status = 200 => fund[f].dLamports = fund[f].n * CostLamports

\* C35: the unit count POST /fund sizes the requirement and the credit with
\* is between 1 and 10000
FundCountInRange ==
    \A f \in FundIds : fund[f].pc # "idle" => fund[f].n \in 1..MaxTxCount

\* C36: an admin request changes the store only when its adminKey is the
\* configured key; it is answered 500 when no key is configured, 401 when its
\* key is missing or wrong, 404 when the project of a deposit is unknown, and
\* in each of these cases no project is created or changed
AdminOnlyWithKey ==
    [][/\ \A id \in ProjectIds, key \in AdminKeys :
            (\/ \E named \in BOOLEAN : AdminProjectsCall(id, named, key)
             \/ \E l \in AdminLamports : AdminDepositCall(id, l, key))
            => /\ admin.validKey = NoKey
                  => admin'.status = 500 /\ UNCHANGED <<objs, index, saved>>
               /\ (admin.validKey # NoKey /\ key # admin.validKey)
                  => admin'.status = 401 /\ UNCHANGED <<objs, index, saved>>
       /\ \A id \in ProjectIds, l \in AdminLamports :
            (AdminDepositCall(id, l, admin.validKey)
               /\ admin.validKey # NoKey /\ index[id] = 0)
            => admin'.status = 404 /\ UNCHANGED <<objs, index, saved>>
       /\ (objs' # objs \/ index' # index \/ saved' # saved)
            => /\ admin.validKey # NoKey
               /\ admin'.adminKey = admin.validKey
               /\ admin'.status = 200
       /\ admin'.validKey = admin.validKey
      ]_vars

\* a request with a wrong key was answered 401 after an earlier request with
\* the configured key had funded the project
WrongKeyRefused ==
    /\ admin.status = 401
    /\ admin.adminKey = "key_2"
    /\ admin.validKey = "key_1"
    /\ \E o \in Live : objs[o].lastDeposit.lamports = 5000 /\ objs[o].credits = 1

\* C38: whenever a handler or a poll cycle awaits or has answered, data.json
\* holds the balances and totalTxs of every project as they are in memory
Durable ==
    \A id \in ProjectIds :
        saved[id] = IF index[id] = 0 THEN NoRecord
                    ELSE Ledger(objs[index[id]])

\* a project that was credited and debited, as the file shows it
SavedAfterDebit ==
    \E id \in ProjectIds :
        /\ index[id] # 0
        /\ objs[index[id]].credits > 0
        /\ saved[id].totalTxs = 1
        /\ saved[id].balanceLamports = objs[index[id]].credited - CostLamports

\* C37: a /sign_and_send response with a 2xx status carries a signature and
\* goes with exactly one debit and one totalTxs increment
SuccessMeansDebit ==
    [][\A r \in ReqIds :
          (req[r].pc # "done" /\ req'[r].pc = "done"
             /\ req'[r].status \in 200..299)
          => LET p == objs[req[r].obj]
                 q == objs'[req[r].obj]
             IN  /\ req'[r].kind = "Success"
                 /\ q.totalTxs = p.totalTxs + 1
                 /\ \/ /\ q.balanceLamports = p.balanceLamports - CostLamports
                       /\ q.balanceUsdcLamports = p.balanceUsdcLamports
                    \/ /\ q.balanceUsdcLamports = p.balanceUsdcLamports - CostUsdc
                       /\ q.balanceLamports = p.balanceLamports
      ]_vars

====
